---- MODULE Spec2Model ----
(***************************************************************************)
(* Sound-effect scheduling of chessmoments/next-tailwind:                  *)
(*   src/src/lib/sound-effects-config.ts   (catalog, selection helpers)    *)
(*   src/src/lib/sound-effect-triggers.ts  (classifier, timing, schedule,  *)
(*                                          overlap filter)                *)
(*                                                                         *)
(* Conventions.                                                            *)
(*  - A JavaScript `number | undefined` is <<>> (undefined) or <<n>>.      *)
(*  - An absent capturedPiece (undefined) is NoPiece; like undefined it is *)
(*    falsy in the test of line 63.                                        *)
(*  - Volumes are integers: a catalog volume is in hundredths (0.45 is 45),*)
(*    masterVolume is in hundredths (1.0 is 100), and a scaled volume      *)
(*    (volume * masterVolume) is therefore in ten-thousandths.             *)
(*  - The path and description of a sound are never read by the code       *)
(*    modelled here and are left out of the records.                       *)
(***************************************************************************)
EXTENDS Integers, Sequences, FiniteSets

VARIABLES
    pc,            \* which call is running and where it stands
    catalog,       \* the SOUND_EFFECTS object the module holds
    settings,      \* SoundEffectSettings argument
    moves,         \* generateSoundSchedule: what chess.js reported for moves[0..index-1]
    evaluations,   \* generateSoundSchedule: evaluations[0..index-1]
    randoms,       \* generateSoundSchedule: the Math.random draw used by each move
    previousEval,  \* generateSoundSchedule: let previousEval
    triggers,      \* generateSoundSchedule: const triggers
    schedule,      \* the array generateSoundSchedule returned
    analysis,      \* analyzeMoveForSounds: its MoveAnalysis argument
    sounds,        \* analyzeMoveForSounds: the array it returned
    atmosphere,    \* getAtmosphereSounds: the array it returned
    input,         \* filterOverlappingSounds: its triggers argument
    maxFrameDistance, \* filterOverlappingSounds: its maxFrameDistance argument
    pos,           \* filterOverlappingSounds: number of triggers the forEach has visited
    filtered       \* filterOverlappingSounds: const filtered (and the returned array)

vars == <<pc, catalog, settings, moves, evaluations, randoms, previousEval, triggers,
          schedule, analysis, sounds, atmosphere, input, maxFrameDistance,
          pos, filtered>>

--------------------------------------------------------------------------
(* Bounds of the model                                                     *)

\* longest moves array given to generateSoundSchedule
MaxMoves == 2

\* longest triggers array given to filterOverlappingSounds on its own
MaxTriggers == 3

\* moves of a game in the three-move walkthrough
WalkthroughMoves == 3

--------------------------------------------------------------------------
(* JavaScript values                                                       *)

Undefined == <<>>

Some(n) == <<n>>

IsDefined(x) == x # Undefined

Abs(x) == IF x < 0 THEN -x ELSE x

NoPiece == "undefined"

Range(s) == {s[i] : i \in 1..Len(s)}

--------------------------------------------------------------------------
(* sound-effects-config.ts                                                 *)

Sound(id, category, volume) == [id |-> id, category |-> category, volume |-> volume]

\* the value getSoundEffect returns when no entry has the id
NoSound == Sound("undefined", "undefined", 0)

\* Object.values(SOUND_EFFECTS) visits the keys in insertion order
CategoryOrder ==
    <<"piece_capture", "crowd_reaction", "atmosphere", "clock", "special_moves">>

SOUND_EFFECTS ==
    [piece_capture |->
        << Sound("capture-pawn",  "piece_capture", 40),
           Sound("capture-minor", "piece_capture", 45),
           Sound("capture-rook",  "piece_capture", 50),
           Sound("capture-queen", "piece_capture", 60) >>,
     crowd_reaction |->
        << Sound("gasp-01",     "crowd_reaction", 35),
           Sound("gasp-02",     "crowd_reaction", 35),
           Sound("applause-01", "crowd_reaction", 30),
           Sound("applause-02", "crowd_reaction", 30),
           Sound("murmur",      "crowd_reaction", 20),
           Sound("cheer",       "crowd_reaction", 40) >>,
     atmosphere |->
        << Sound("tournament-hall",         "atmosphere", 15),
           Sound("chess-pieces-background", "atmosphere", 10) >>,
     clock |->
        << Sound("clock-tick",      "clock", 25),
           Sound("clock-tick-fast", "clock", 30),
           Sound("clock-press",     "clock", 30) >>,
     special_moves |->
        << Sound("check",     "special_moves", 40),
           Sound("checkmate", "special_moves", 50),
           Sound("castle",    "special_moves", 35),
           Sound("promotion", "special_moves", 40) >>]

\* category.find(e => e.id === id): the first such element from position i on,
\* or NoSound
RECURSIVE findById(_, _, _)
findById(list, id, i) ==
    IF i > Len(list) THEN NoSound
    ELSE IF list[i].id = id THEN list[i]
    ELSE findById(list, id, i + 1)

RECURSIVE getSoundEffectFrom(_, _)
getSoundEffectFrom(id, c) ==
    IF c > Len(CategoryOrder) THEN NoSound
    ELSE LET effect == findById(SOUND_EFFECTS[CategoryOrder[c]], id, 1)
         IN  IF effect # NoSound THEN effect ELSE getSoundEffectFrom(id, c + 1)

getSoundEffect(id) == getSoundEffectFrom(id, 1)

\* Math.floor(Math.random() * sounds.length) is one of 0 .. sounds.length - 1
RandomIndexes(category) == 0 .. (Len(SOUND_EFFECTS[category]) - 1)

\* getRandomSound with the index Math.random produced
getRandomSound(category, r) == SOUND_EFFECTS[category][r + 1]

\* String.prototype.toLowerCase on the piece codes of the model
toLowerCase(piece) ==
    CASE piece = "P" -> "p"
      [] piece = "N" -> "n"
      [] piece = "B" -> "b"
      [] piece = "R" -> "r"
      [] piece = "Q" -> "q"
      [] piece = "K" -> "k"
      [] OTHER -> piece

\* faulty variant of getCaptureSound: the piece code is not lower-cased
getCaptureSoundCaseSensitive(capturedPiece) ==
    LET piece == capturedPiece
    IN  IF piece = "p" THEN SOUND_EFFECTS.piece_capture[1]
        ELSE IF piece = "n" \/ piece = "b" THEN SOUND_EFFECTS.piece_capture[2]
        ELSE IF piece = "r" THEN SOUND_EFFECTS.piece_capture[3]
        ELSE IF piece = "q" THEN SOUND_EFFECTS.piece_capture[4]
        ELSE SOUND_EFFECTS.piece_capture[1]

getCaptureSound(capturedPiece) ==
    LET piece == toLowerCase(capturedPiece)
    IN  IF piece = "p" THEN SOUND_EFFECTS.piece_capture[1]
        ELSE IF piece = "n" \/ piece = "b" THEN SOUND_EFFECTS.piece_capture[2]
        ELSE IF piece = "r" THEN SOUND_EFFECTS.piece_capture[3]
        ELSE IF piece = "q" THEN SOUND_EFFECTS.piece_capture[4]
        ELSE SOUND_EFFECTS.piece_capture[1]

Settings(en, cap, crowd, atmo, clock, special, vol) ==
    [enabled |-> en, capturesEnabled |-> cap, crowdEnabled |-> crowd,
     atmosphereEnabled |-> atmo, clockEnabled |-> clock,
     specialMovesEnabled |-> special, masterVolume |-> vol]

DEFAULT_SOUND_SETTINGS == Settings(TRUE, TRUE, TRUE, TRUE, FALSE, TRUE, 100)

--------------------------------------------------------------------------
(* sound-effect-triggers.ts: analyzeMoveForSounds, getAtmosphereSounds     *)

\* String.prototype.includes('applause') on the identifiers of the catalog
IncludesApplause(id) == id \in {"applause-01", "applause-02"}

\* SOUND_EFFECTS.crowd_reaction.find(s => s.id.includes('applause')) from
\* position i on
RECURSIVE findApplause(_, _)
findApplause(list, i) ==
    IF i > Len(list) THEN NoSound
    ELSE IF IncludesApplause(list[i].id) THEN list[i]
    ELSE findApplause(list, i + 1)

\* `const s = getSoundEffect(id); if (s) sounds.push(s)`
PushIfFound(s) == IF s # NoSound THEN <<s>> ELSE <<>>

\* faulty variant of specialMoveSounds: castling is tested before check
specialMoveSoundsCastleFirst(a, s) ==
    IF s.specialMovesEnabled
    THEN IF a.isCheckmate THEN PushIfFound(getSoundEffect("checkmate"))
         ELSE IF a.isCastle THEN PushIfFound(getSoundEffect("castle"))
         ELSE IF a.isCheck THEN PushIfFound(getSoundEffect("check"))
         ELSE IF a.isPromotion THEN PushIfFound(getSoundEffect("promotion"))
         ELSE <<>>
    ELSE <<>>

\* lines 45-60: the special-move branch
specialMoveSounds(a, s) ==
    IF s.specialMovesEnabled
    THEN IF a.isCheckmate THEN PushIfFound(getSoundEffect("checkmate"))
         ELSE IF a.isCheck THEN PushIfFound(getSoundEffect("check"))
         ELSE IF a.isCastle THEN PushIfFound(getSoundEffect("castle"))
         ELSE IF a.isPromotion THEN PushIfFound(getSoundEffect("promotion"))
         ELSE <<>>
    ELSE <<>>

\* faulty variant of captureSounds: capturesEnabled is not consulted
captureSoundsAlways(a, s) ==
    IF a.capturedPiece # NoPiece
    THEN <<getCaptureSound(a.capturedPiece)>>
    ELSE <<>>

\* lines 62-66: the capture branch
captureSounds(a, s) ==
    IF s.capturesEnabled /\ a.capturedPiece # NoPiece
    THEN <<getCaptureSound(a.capturedPiece)>>
    ELSE <<>>

\* line 73: the branch that draws a random crowd reaction
UsesRandom(a, s) ==
    /\ s.enabled
    /\ s.crowdEnabled
    /\ IsDefined(a.evaluation)
    /\ IsDefined(a.previousEvaluation)
    /\ Abs(a.evaluation[1] - a.previousEvaluation[1]) > 200

\* faulty variant of crowdSounds: the applause is drawn at random as well
crowdSoundsRandomApplause(a, s, r) ==
    IF s.crowdEnabled /\ IsDefined(a.evaluation) /\ IsDefined(a.previousEvaluation)
    THEN LET evalChange == Abs(a.evaluation[1] - a.previousEvaluation[1])
         IN  IF evalChange > 200
             THEN <<getRandomSound("crowd_reaction", r)>>
             ELSE IF a.evaluation[1] - a.previousEvaluation[1] > 150
             THEN <<getRandomSound("crowd_reaction", r)>>
             ELSE <<>>
    ELSE <<>>

\* faulty variant of crowdSounds: the directional test comes first
crowdSoundsApplauseFirst(a, s, r) ==
    IF s.crowdEnabled /\ IsDefined(a.evaluation) /\ IsDefined(a.previousEvaluation)
    THEN LET evalChange == Abs(a.evaluation[1] - a.previousEvaluation[1])
         IN  IF a.evaluation[1] - a.previousEvaluation[1] > 150
             THEN PushIfFound(findApplause(SOUND_EFFECTS.crowd_reaction, 1))
             ELSE IF evalChange > 200
             THEN <<getRandomSound("crowd_reaction", r)>>
             ELSE <<>>
    ELSE <<>>

\* lines 68-81: the crowd branch; r is the index Math.random yields
crowdSounds(a, s, r) ==
    IF s.crowdEnabled /\ IsDefined(a.evaluation) /\ IsDefined(a.previousEvaluation)
    THEN LET evalChange == Abs(a.evaluation[1] - a.previousEvaluation[1])
         IN  IF evalChange > 200
             THEN <<getRandomSound("crowd_reaction", r)>>
             ELSE IF a.evaluation[1] - a.previousEvaluation[1] > 150
             THEN PushIfFound(findApplause(SOUND_EFFECTS.crowd_reaction, 1))
             ELSE <<>>
    ELSE <<>>

\* `(sound.volume || fallback) * settings.masterVolume` on a copy of the sound
ScaleVolume(sound, fallback, s) ==
    [sound EXCEPT !.volume =
        (IF sound.volume # 0 THEN sound.volume ELSE fallback) * s.masterVolume]

\* faulty variant of analyzeMoveForSounds: the early return of line 41 is missing
analyzeMoveForSoundsNoMaster(a, s, r) ==
    LET pushed == specialMoveSounds(a, s) \o captureSounds(a, s)
                    \o crowdSounds(a, s, r)
    IN  [i \in 1..Len(pushed) |-> ScaleVolume(pushed[i], 50, s)]

analyzeMoveForSounds(a, s, r) ==
    IF ~s.enabled THEN <<>>
    ELSE LET pushed == specialMoveSounds(a, s) \o captureSounds(a, s)
                         \o crowdSounds(a, s, r)
         IN  [i \in 1..Len(pushed) |-> ScaleVolume(pushed[i], 50, s)]

\* faulty variant of getAtmosphereSounds: atmosphereEnabled is not consulted
getAtmosphereSoundsAlways(gamePhase, s) ==
    IF ~s.enabled THEN <<>>
    ELSE LET hallSound == getSoundEffect("tournament-hall")
         IN  IF hallSound # NoSound THEN <<ScaleVolume(hallSound, 15, s)>> ELSE <<>>

\* faulty variant of getAtmosphereSounds: the endgame gets the background of
\* moving pieces instead of the hall
getAtmosphereSoundsByPhase(gamePhase, s) ==
    IF ~s.atmosphereEnabled \/ ~s.enabled THEN <<>>
    ELSE LET hallSound == getSoundEffect(IF gamePhase = "endgame"
                                         THEN "chess-pieces-background"
                                         ELSE "tournament-hall")
         IN  IF hallSound # NoSound THEN <<ScaleVolume(hallSound, 15, s)>> ELSE <<>>

\* the values of the gamePhase parameter
GamePhases == {"opening", "middlegame", "endgame"}

\* the gamePhase argument is never read
getAtmosphereSounds(gamePhase, s) ==
    IF ~s.atmosphereEnabled \/ ~s.enabled THEN <<>>
    ELSE LET hallSound == getSoundEffect("tournament-hall")
         IN  IF hallSound # NoSound THEN <<ScaleVolume(hallSound, 15, s)>> ELSE <<>>

--------------------------------------------------------------------------
(* analyzeMoveForSounds over a SOUND_EFFECTS object edited as the README's *)
(* "Adding Custom Sounds" describes: c is the object the module holds.     *)
(* An array read past its end yields undefined, which is NoSound here.     *)

RECURSIVE getSoundEffectFromIn(_, _, _)
getSoundEffectFromIn(c, id, k) ==
    IF k > Len(CategoryOrder) THEN NoSound
    ELSE LET effect == findById(c[CategoryOrder[k]], id, 1)
         IN  IF effect # NoSound THEN effect
             ELSE getSoundEffectFromIn(c, id, k + 1)

getSoundEffectIn(c, id) == getSoundEffectFromIn(c, id, 1)

\* list[index] of JavaScript, index 0-based
ElementAt(list, index) ==
    IF index + 1 \in 1..Len(list) THEN list[index + 1] ELSE NoSound

\* Math.floor(Math.random() * sounds.length): 0 when the array is empty
RandomIndexesIn(c, category) ==
    IF c[category] = <<>> THEN {0} ELSE 0 .. (Len(c[category]) - 1)

getRandomSoundIn(c, category, r) == ElementAt(c[category], r)

getCaptureSoundIn(c, capturedPiece) ==
    LET piece == toLowerCase(capturedPiece)
    IN  IF piece = "p" THEN ElementAt(c.piece_capture, 0)
        ELSE IF piece = "n" \/ piece = "b" THEN ElementAt(c.piece_capture, 1)
        ELSE IF piece = "r" THEN ElementAt(c.piece_capture, 2)
        ELSE IF piece = "q" THEN ElementAt(c.piece_capture, 3)
        ELSE ElementAt(c.piece_capture, 0)

\* lines 45-60
specialMoveSoundsIn(c, a, s) ==
    IF s.specialMovesEnabled
    THEN IF a.isCheckmate THEN PushIfFound(getSoundEffectIn(c, "checkmate"))
         ELSE IF a.isCheck THEN PushIfFound(getSoundEffectIn(c, "check"))
         ELSE IF a.isCastle THEN PushIfFound(getSoundEffectIn(c, "castle"))
         ELSE IF a.isPromotion THEN PushIfFound(getSoundEffectIn(c, "promotion"))
         ELSE <<>>
    ELSE <<>>

\* lines 62-66: what getCaptureSound returned is pushed without a test
captureSoundsIn(c, a, s) ==
    IF s.capturesEnabled /\ a.capturedPiece # NoPiece
    THEN <<getCaptureSoundIn(c, a.capturedPiece)>>
    ELSE <<>>

\* lines 68-81: what getRandomSound returned is pushed without a test, the
\* applause only if find returned one
crowdSoundsIn(c, a, s, r) ==
    IF s.crowdEnabled /\ IsDefined(a.evaluation) /\ IsDefined(a.previousEvaluation)
    THEN LET evalChange == Abs(a.evaluation[1] - a.previousEvaluation[1])
         IN  IF evalChange > 200
             THEN <<getRandomSoundIn(c, "crowd_reaction", r)>>
             ELSE IF a.evaluation[1] - a.previousEvaluation[1] > 150
             THEN PushIfFound(findApplause(c.crowd_reaction, 1))
             ELSE <<>>
    ELSE <<>>

\* the sounds array when line 84 is reached
pushedSoundsIn(c, a, s, r) ==
    specialMoveSoundsIn(c, a, s) \o captureSoundsIn(c, a, s)
        \o crowdSoundsIn(c, a, s, r)

\* lines 84-87: reading sound.volume of an undefined element is a TypeError
mapThrows(pushed) == \E i \in 1..Len(pushed) : pushed[i] = NoSound

\* the call raises a TypeError
analyzeMoveForSoundsThrows(c, a, s, r) ==
    s.enabled /\ mapThrows(pushedSoundsIn(c, a, s, r))

\* the array the call returns when it does not raise
analyzeMoveForSoundsIn(c, a, s, r) ==
    IF ~s.enabled THEN <<>>
    ELSE LET pushed == pushedSoundsIn(c, a, s, r)
         IN  [i \in 1..Len(pushed) |-> ScaleVolume(pushed[i], 50, s)]

\* lines 93-111 over the object c
getAtmosphereSoundsIn(c, gamePhase, s) ==
    IF ~s.atmosphereEnabled \/ ~s.enabled THEN <<>>
    ELSE LET hallSound == getSoundEffectIn(c, "tournament-hall")
         IN  IF hallSound # NoSound THEN <<ScaleVolume(hallSound, 15, s)>> ELSE <<>>

--------------------------------------------------------------------------
(* sound-effect-triggers.ts: timing, priority, schedule, overlap filter    *)

MoveAnalysis(outcome, evaluation, previousEvaluation, moveNumber) ==
    [capturedPiece |-> outcome.captured,
     isCheck |-> outcome.isCheck,
     isCheckmate |-> outcome.isCheckmate,
     isCastle |-> outcome.isCastle,
     isPromotion |-> outcome.isPromotion,
     evaluation |-> evaluation,
     previousEvaluation |-> previousEvaluation,
     moveNumber |-> moveNumber]

\* default of the introDuration parameter
IntroDuration == 90

\* default of the frameDurationPerMove parameter
FrameDurationPerMove == 30

\* default of the fps parameters
DefaultFps == 30

\* offset between the sounds of one move
SoundOffset == 5

\* default of the maxFrameDistance parameter
DefaultMaxFrameDistance == 15

\* faulty variant of calculateSoundFrameTiming: the index is taken as 1-based
calculateSoundFrameTimingOneBased(moveIndex, fps, introDuration, frameDurationPerMove) ==
    introDuration + ((moveIndex + 1) * frameDurationPerMove)

calculateSoundFrameTiming(moveIndex, fps, introDuration, frameDurationPerMove) ==
    introDuration + (moveIndex * frameDurationPerMove)

\* faulty variant of getPriority: crowd reactions rank with captures
getPriorityCrowdAsCapture(sound) ==
    CASE sound.category = "special_moves" -> 5
      [] sound.category = "crowd_reaction" -> 3
      [] sound.category = "piece_capture" -> 3
      [] sound.category = "clock" -> 2
      [] sound.category = "atmosphere" -> 1
      [] OTHER -> 0

getPriority(sound) ==
    CASE sound.category = "special_moves" -> 5
      [] sound.category = "crowd_reaction" -> 4
      [] sound.category = "piece_capture" -> 3
      [] sound.category = "clock" -> 2
      [] sound.category = "atmosphere" -> 1
      [] OTHER -> 0

Trigger(sound, startFrame, priority) ==
    [soundEffect |-> sound, startFrame |-> startFrame, priority |-> priority]

\* faulty variant of moveTriggers: the sounds of a move are a whole move apart
moveTriggersMoveApart(moveSounds, index, fps) ==
    LET frameStart == calculateSoundFrameTiming(index, fps, IntroDuration,
                                                FrameDurationPerMove)
    IN  [soundIndex \in 1..Len(moveSounds) |->
            Trigger(moveSounds[soundIndex],
                    frameStart + ((soundIndex - 1) * FrameDurationPerMove),
                    getPriority(moveSounds[soundIndex]))]

\* faulty variant of moveTriggers: every sound of a move starts on frameStart
moveTriggersNoOffset(moveSounds, index, fps) ==
    LET frameStart == calculateSoundFrameTiming(index, fps, IntroDuration,
                                                FrameDurationPerMove)
    IN  [soundIndex \in 1..Len(moveSounds) |->
            Trigger(moveSounds[soundIndex], frameStart,
                    getPriority(moveSounds[soundIndex]))]

\* lines 175-181: the triggers one move pushes; index is the 0-based move index
moveTriggers(moveSounds, index, fps) ==
    LET frameStart == calculateSoundFrameTiming(index, fps, IntroDuration,
                                                FrameDurationPerMove)
    IN  [soundIndex \in 1..Len(moveSounds) |->
            Trigger(moveSounds[soundIndex],
                    frameStart + ((soundIndex - 1) * SoundOffset),
                    getPriority(moveSounds[soundIndex]))]

\* faulty variant of compareTriggers: the priority is compared before the frame
compareTriggersByPriority(a, b) ==
    IF a.priority # b.priority
    THEN b.priority - a.priority
    ELSE a.startFrame - b.startFrame

\* faulty variant of compareTriggers: the frame difference is reversed
compareTriggersReversed(a, b) ==
    IF a.startFrame # b.startFrame
    THEN b.startFrame - a.startFrame
    ELSE b.priority - a.priority

\* the comparator of lines 187-192
compareTriggers(a, b) ==
    IF a.startFrame # b.startFrame
    THEN a.startFrame - b.startFrame
    ELSE b.priority - a.priority

\* Array.prototype.sort is stable: t goes after every element that does not
\* compare greater than it
RECURSIVE InsertSorted(_, _)
InsertSorted(sorted, t) ==
    IF sorted = <<>> THEN <<t>>
    ELSE IF compareTriggers(sorted[Len(sorted)], t) <= 0
    THEN Append(sorted, t)
    ELSE Append(InsertSorted(SubSeq(sorted, 1, Len(sorted) - 1), t),
                sorted[Len(sorted)])

\* the sorted prefix is bound as a value, so that it is computed once
RECURSIVE sortTriggers(_)
sortTriggers(list) ==
    IF list = <<>> THEN <<>>
    ELSE CHOOSE result \in
             { InsertSorted(sorted, list[Len(list)]) :
                 sorted \in {sortTriggers(SubSeq(list, 1, Len(list) - 1))} } : TRUE

\* faulty variant of hasConflict: only a strictly higher priority conflicts
hasConflictStrict(kept, trigger, distance) ==
    \E i \in 1..Len(kept) :
        /\ Abs(kept[i].startFrame - trigger.startFrame) < distance
        /\ kept[i].priority > trigger.priority

\* faulty variant of hasConflict: the window includes its end point
hasConflictInclusive(kept, trigger, distance) ==
    \E i \in 1..Len(kept) :
        /\ Abs(kept[i].startFrame - trigger.startFrame) <= distance
        /\ kept[i].priority >= trigger.priority

\* lines 220-224: filtered.some(...)
\* faulty variant of hasConflict: the priorities are not compared
hasConflictAnyPriority(kept, trigger, distance) ==
    \E i \in 1..Len(kept) :
        Abs(kept[i].startFrame - trigger.startFrame) < distance

hasConflict(kept, trigger, distance) ==
    \E i \in 1..Len(kept) :
        /\ Abs(kept[i].startFrame - trigger.startFrame) < distance
        /\ kept[i].priority >= trigger.priority

\* variant of filterStep that evicts: a trigger that is kept removes the kept
\* triggers of lower priority within the window
filterStepEvict(kept, trigger, distance) ==
    IF ~hasConflict(kept, trigger, distance)
    THEN Append(SelectSeq(kept,
                   LAMBDA k : ~(/\ Abs(k.startFrame - trigger.startFrame) < distance
                                /\ k.priority < trigger.priority)),
                trigger)
    ELSE kept

\* faulty variant of filterStep: a kept trigger goes to the front of the list
filterStepUnshift(kept, trigger, distance) ==
    IF ~hasConflict(kept, trigger, distance) THEN <<trigger>> \o kept ELSE kept

\* faulty variant of filterStep: the trigger is pushed without the conflict test
filterStepKeepAll(kept, trigger, distance) ==
    Append(kept, trigger)

\* lines 219-229: one iteration of triggers.forEach
filterStep(kept, trigger, distance) ==
    IF ~hasConflict(kept, trigger, distance) THEN Append(kept, trigger) ELSE kept

\* filtered after the forEach has visited the first n triggers
RECURSIVE filterPrefix(_, _, _)
filterPrefix(list, n, distance) ==
    IF n = 0 THEN <<>>
    ELSE filterStep(filterPrefix(list, n - 1, distance), list[n], distance)

filterOverlappingSounds(list, distance) == filterPrefix(list, Len(list), distance)

\* previousEval when the forEach reaches 0-based index i
previousEvalAt(evals, i) == IF i = 0 THEN Undefined ELSE evals[i]

\* triggers after the forEach has visited the first n moves
RECURSIVE triggersAfter(_, _, _, _, _)
triggersAfter(ms, evals, rs, s, n) ==
    IF n = 0 THEN <<>>
    ELSE LET a == MoveAnalysis(ms[n], evals[n], previousEvalAt(evals, n - 1), n)
         IN  triggersAfter(ms, evals, rs, s, n - 1)
                \o moveTriggers(analyzeMoveForSounds(a, s, rs[n]), n - 1, DefaultFps)

\* generateSoundSchedule on the outcomes chess.js reports for the moves, the
\* evaluations and the random draws of the run
generateSoundSchedule(ms, evals, rs, s) ==
    sortTriggers(triggersAfter(ms, evals, rs, s, Len(ms)))

--------------------------------------------------------------------------
(* Inputs of the model                                                     *)

Outcome(captured, isCheck, isCheckmate, isCastle, isPromotion) ==
    [captured |-> captured, isCheck |-> isCheck, isCheckmate |-> isCheckmate,
     isCastle |-> isCastle, isPromotion |-> isPromotion]

\* what chess.js reports for the moves of a game given to generateSoundSchedule:
\* a quiet move, a queen capture, a checkmate that captures a pawn, and
\* castling that gives check
GameOutcomes ==
    { Outcome(NoPiece, FALSE, FALSE, FALSE, FALSE),
      Outcome("q",     FALSE, FALSE, FALSE, FALSE),
      Outcome("p",     TRUE,  TRUE,  FALSE, FALSE),
      Outcome(NoPiece, TRUE,  FALSE, TRUE,  FALSE) }

\* the entries of the evaluations array
GameEvaluations == {Undefined, Some(0), Some(180), Some(400)}

\* the settings generateSoundSchedule is run with
GameSettings ==
    { Settings(en, cap, crowd, atmo, FALSE, special, 100) :
        en \in BOOLEAN, cap \in BOOLEAN, crowd \in BOOLEAN,
        atmo \in BOOLEAN, special \in BOOLEAN }

\* the Math.random draws a move can use: all of them where line 74 draws,
\* and a fixed one where nothing is drawn
RandomDraws(a, s) ==
    IF UsesRandom(a, s) THEN RandomIndexes("crowd_reaction") ELSE {0}

--------------------------------------------------------------------------
(* The caller of the README: generateSoundSchedule, then                   *)
(* filterOverlappingSounds on what it returned                             *)

NoAnalysis == MoveAnalysis(Outcome(NoPiece, FALSE, FALSE, FALSE, FALSE),
                           Undefined, Undefined, 0)

Init ==
    /\ pc = "forEach"
    /\ settings \in GameSettings
    /\ moves = <<>>
    /\ evaluations = <<>>
    /\ randoms = <<>>
    /\ previousEval = Undefined
    /\ triggers = <<>>
    /\ schedule = <<>>
    /\ analysis = NoAnalysis
    /\ sounds = <<>>
    /\ atmosphere = <<>>
    /\ input = <<>>
    /\ maxFrameDistance = DefaultMaxFrameDistance
    /\ pos = 0
    /\ filtered = <<>>
    /\ catalog = SOUND_EFFECTS

\* faulty variant of forEachCallback: an absent evaluation does not replace
\* previousEval
forEachCallbackKeepsEval(outcomes, evals, length) ==
    /\ pc = "forEach"
    /\ Len(moves) < length
    /\ \E outcome \in outcomes, currentEval \in evals :
         LET index == Len(moves)
             a == MoveAnalysis(outcome, currentEval, previousEval, index + 1)
         IN  \E r \in RandomDraws(a, settings) :
               LET moveSounds == analyzeMoveForSounds(a, settings, r)
               IN  /\ moves' = Append(moves, outcome)
                   /\ evaluations' = Append(evaluations, currentEval)
                   /\ randoms' = Append(randoms, r)
                   /\ analysis' = a
                   /\ sounds' = moveSounds
                   /\ triggers' = triggers \o moveTriggers(moveSounds, index, DefaultFps)
                   /\ previousEval' = IF IsDefined(currentEval) THEN currentEval
                                      ELSE previousEval
    /\ UNCHANGED <<pc, catalog, settings, schedule, atmosphere, input,
                   maxFrameDistance, pos, filtered>>

\* lines 168-184: the forEach callback on the next move of a game whose moves
\* and evaluations are drawn from the given sets
forEachCallback(outcomes, evals, length) ==
    /\ pc = "forEach"
    /\ Len(moves) < length
    /\ \E outcome \in outcomes, currentEval \in evals :
         LET index == Len(moves)
             a == MoveAnalysis(outcome, currentEval, previousEval, index + 1)
         IN  \E r \in RandomDraws(a, settings) :
               LET moveSounds == analyzeMoveForSounds(a, settings, r)
               IN  /\ moves' = Append(moves, outcome)
                   /\ evaluations' = Append(evaluations, currentEval)
                   /\ randoms' = Append(randoms, r)
                   /\ analysis' = a
                   /\ sounds' = moveSounds
                   /\ triggers' = triggers \o moveTriggers(moveSounds, index, DefaultFps)
                   /\ previousEval' = currentEval
    /\ UNCHANGED <<pc, catalog, settings, schedule, atmosphere, input,
                   maxFrameDistance, pos, filtered>>

ProcessMove == forEachCallback(GameOutcomes, GameEvaluations, MaxMoves)

\* lines 186-192: the moves array is exhausted; sort and return
ReturnSchedule ==
    /\ pc = "forEach"
    /\ schedule' = sortTriggers(triggers)
    /\ pc' = "returned"
    /\ UNCHANGED <<catalog, settings, moves, evaluations, randoms, previousEval, triggers,
                   analysis, sounds, atmosphere, input, maxFrameDistance, pos,
                   filtered>>

\* the caller passes the schedule through filterOverlappingSounds with the
\* default window
FilterSchedule ==
    /\ pc = "returned"
    /\ input' = schedule
    /\ pos' = Len(schedule)
    /\ filtered' = filterOverlappingSounds(schedule, maxFrameDistance)
    /\ pc' = "done"
    /\ UNCHANGED <<catalog, settings, moves, evaluations, randoms, previousEval, triggers,
                   schedule, analysis, sounds, atmosphere, maxFrameDistance>>

Next == ProcessMove \/ ReturnSchedule \/ FilterSchedule

Spec == Init /\ [][Next]_vars

--------------------------------------------------------------------------
(* The same caller on three-move games with every sound enabled            *)

\* a quiet move, a queen capture and a checkmate
WalkthroughOutcomes ==
    { Outcome(NoPiece, FALSE, FALSE, FALSE, FALSE),
      Outcome("q",     FALSE, FALSE, FALSE, FALSE),
      Outcome(NoPiece, TRUE,  TRUE,  FALSE, FALSE) }

WalkthroughEvaluations == {Undefined, Some(30), Some(200), Some(250)}

\* every category of sound a move can produce is enabled
WalkthroughSettings == {DEFAULT_SOUND_SETTINGS}

InitWalkthrough ==
    /\ pc = "forEach"
    /\ settings \in WalkthroughSettings
    /\ moves = <<>>
    /\ evaluations = <<>>
    /\ randoms = <<>>
    /\ previousEval = Undefined
    /\ triggers = <<>>
    /\ schedule = <<>>
    /\ analysis = NoAnalysis
    /\ sounds = <<>>
    /\ atmosphere = <<>>
    /\ input = <<>>
    /\ maxFrameDistance = DefaultMaxFrameDistance
    /\ pos = 0
    /\ filtered = <<>>
    /\ catalog = SOUND_EFFECTS

ProcessWalkthroughMove ==
    forEachCallback(WalkthroughOutcomes, WalkthroughEvaluations, WalkthroughMoves)

NextWalkthrough == ProcessWalkthroughMove \/ ReturnSchedule \/ FilterSchedule

SpecWalkthrough == InitWalkthrough /\ [][NextWalkthrough]_vars

--------------------------------------------------------------------------
(* The same caller on games whose evaluations are all present              *)

\* a quiet move and a queen capture
RepeatOutcomes ==
    { Outcome(NoPiece, FALSE, FALSE, FALSE, FALSE),
      Outcome("q",     FALSE, FALSE, FALSE, FALSE) }

\* changes of 170 (applause), 220 (a drawn reaction) and 50 (no cue)
RepeatEvaluations == {Some(30), Some(200), Some(250)}

ProcessRepeatMove ==
    forEachCallback(RepeatOutcomes, RepeatEvaluations, WalkthroughMoves)

NextRepeat == ProcessRepeatMove \/ ReturnSchedule \/ FilterSchedule

SpecRepeat == InitWalkthrough /\ [][NextRepeat]_vars

--------------------------------------------------------------------------
(* analyzeMoveForSounds and getAtmosphereSounds called on their own        *)

\* every combination of the four flags, with and without a captured piece
ClassifierOutcomes ==
    { Outcome(captured, isCheck, isCheckmate, isCastle, isPromotion) :
        captured \in {NoPiece, "p", "q"}, isCheck \in BOOLEAN,
        isCheckmate \in BOOLEAN, isCastle \in BOOLEAN, isPromotion \in BOOLEAN }

ClassifierEvaluations == {Undefined, Some(0), Some(180), Some(400)}

\* piece codes chess.js reports, in both cases, and a code it never reports
CapturedPieces ==
    {"p", "n", "b", "r", "q", "k", "P", "N", "B", "R", "Q", "K", "x"}

\* a plain move or a check, capturing any piece or none
TierOutcomes ==
    { Outcome(captured, isCheck, FALSE, FALSE, FALSE) :
        captured \in CapturedPieces \cup {NoPiece}, isCheck \in BOOLEAN }

\* evaluations whose differences lie on and next to the thresholds 150 and 200
ThresholdEvaluations ==
    {Undefined, Some(30), Some(50), Some(200), Some(250), Some(251)}

\* the arguments of a call: what the move did, evaluation, previousEvaluation
ClassifierCalls ==
    (ClassifierOutcomes \X ClassifierEvaluations \X ClassifierEvaluations)
        \cup (TierOutcomes \X ThresholdEvaluations \X ThresholdEvaluations)

ClassifierSettings ==
    { Settings(en, cap, crowd, atmo, FALSE, special, vol) :
        en \in BOOLEAN, cap \in BOOLEAN, crowd \in BOOLEAN,
        atmo \in BOOLEAN, special \in BOOLEAN, vol \in {50, 100} }

InitClassify ==
    /\ pc = "classify"
    /\ settings \in ClassifierSettings
    /\ moves = <<>>
    /\ evaluations = <<>>
    /\ randoms = <<>>
    /\ previousEval = Undefined
    /\ triggers = <<>>
    /\ schedule = <<>>
    /\ analysis = NoAnalysis
    /\ sounds = <<>>
    /\ atmosphere = <<>>
    /\ input = <<>>
    /\ maxFrameDistance = DefaultMaxFrameDistance
    /\ pos = 0
    /\ filtered = <<>>
    /\ catalog = SOUND_EFFECTS

\* one call of analyzeMoveForSounds
Analyze ==
    /\ pc = "classify"
    /\ \E call \in ClassifierCalls :
         LET a == MoveAnalysis(call[1], call[2], call[3], 1)
         IN  \E r \in RandomDraws(a, settings) :
               /\ analysis' = a
               /\ randoms' = <<r>>
               /\ sounds' = analyzeMoveForSounds(a, settings, r)
    /\ pc' = "classified"
    /\ UNCHANGED <<catalog, settings, moves, evaluations, previousEval, triggers, schedule,
                   atmosphere, input, maxFrameDistance, pos, filtered>>

\* one call of getAtmosphereSounds
AskAtmosphere ==
    /\ pc = "classify"
    /\ \E gamePhase \in GamePhases :
         atmosphere' = getAtmosphereSounds(gamePhase, settings)
    /\ pc' = "atmosphere"
    /\ UNCHANGED <<catalog, settings, moves, evaluations, randoms, previousEval, triggers,
                   schedule, analysis, sounds, input, maxFrameDistance, pos,
                   filtered>>

NextClassify == Analyze \/ AskAtmosphere

SpecClassify == InitClassify /\ [][NextClassify]_vars

--------------------------------------------------------------------------
(* analyzeMoveForSounds called on its own over an edited SOUND_EFFECTS     *)

\* the shipped object; the capture list replaced by one custom entry, as in
\* the README; the capture list or the crowd list emptied; the checkmate
\* entry removed; the applause entries removed
CustomCatalogs ==
    { SOUND_EFFECTS,
      [SOUND_EFFECTS EXCEPT !.piece_capture =
          <<Sound("capture-custom", "piece_capture", 40)>>],
      [SOUND_EFFECTS EXCEPT !.piece_capture = <<>>],
      [SOUND_EFFECTS EXCEPT !.crowd_reaction = <<>>],
      [SOUND_EFFECTS EXCEPT !.special_moves =
          << Sound("check",     "special_moves", 40),
             Sound("castle",    "special_moves", 35),
             Sound("promotion", "special_moves", 40) >>],
      [SOUND_EFFECTS EXCEPT !.crowd_reaction =
          << Sound("gasp-01", "crowd_reaction", 35),
             Sound("murmur",  "crowd_reaction", 20) >>] }

CatalogSettings ==
    { Settings(en, cap, crowd, TRUE, FALSE, special, 100) :
        en \in BOOLEAN, cap \in BOOLEAN, crowd \in BOOLEAN, special \in BOOLEAN }

\* a quiet move, a pawn and a queen capture, a check and a checkmate
CatalogOutcomes ==
    { Outcome(NoPiece, FALSE, FALSE, FALSE, FALSE),
      Outcome("p",     FALSE, FALSE, FALSE, FALSE),
      Outcome("q",     FALSE, FALSE, FALSE, FALSE),
      Outcome(NoPiece, TRUE,  FALSE, FALSE, FALSE),
      Outcome(NoPiece, TRUE,  TRUE,  FALSE, FALSE) }

InitCatalog ==
    /\ pc = "classify"
    /\ catalog \in CustomCatalogs
    /\ settings \in CatalogSettings
    /\ moves = <<>>
    /\ evaluations = <<>>
    /\ randoms = <<>>
    /\ previousEval = Undefined
    /\ triggers = <<>>
    /\ schedule = <<>>
    /\ analysis = NoAnalysis
    /\ sounds = <<>>
    /\ atmosphere = <<>>
    /\ input = <<>>
    /\ maxFrameDistance = DefaultMaxFrameDistance
    /\ pos = 0
    /\ filtered = <<>>

\* one call of analyzeMoveForSounds: it returns an array or raises
AnalyzeInCatalog ==
    /\ pc = "classify"
    /\ \E outcome \in CatalogOutcomes, evaluation \in ClassifierEvaluations,
          previousEvaluation \in ClassifierEvaluations :
         LET a == MoveAnalysis(outcome, evaluation, previousEvaluation, 1)
         IN  \E r \in (IF UsesRandom(a, settings)
                        THEN RandomIndexesIn(catalog, "crowd_reaction") ELSE {0}) :
               /\ analysis' = a
               /\ randoms' = <<r>>
               /\ IF analyzeMoveForSoundsThrows(catalog, a, settings, r)
                  THEN /\ pc' = "TypeError"
                       /\ sounds' = <<>>
                  ELSE /\ pc' = "classified"
                       /\ sounds' = analyzeMoveForSoundsIn(catalog, a, settings, r)
    /\ UNCHANGED <<catalog, settings, moves, evaluations, previousEval, triggers,
                   schedule, atmosphere, input, maxFrameDistance, pos, filtered>>

NextCatalog == AnalyzeInCatalog

SpecCatalog == InitCatalog /\ [][NextCatalog]_vars

--------------------------------------------------------------------------
(* filterOverlappingSounds called on its own, one forEach iteration a step *)

FilterSounds ==
    { getSoundEffect("checkmate"), getSoundEffect("gasp-01"),
      getSoundEffect("capture-pawn") }

FilterFrames == {0, 5, 20}

FilterWindows == {0, 6, 15}

\* a trigger as line 176 builds it
FilterTriggers ==
    { Trigger(sound, frame, getPriority(sound)) :
        sound \in FilterSounds, frame \in FilterFrames }

FilterInputs ==
    UNION { [1..n -> FilterTriggers] : n \in 0..MaxTriggers }

InitFilter ==
    /\ pc = "filter"
    /\ settings = DEFAULT_SOUND_SETTINGS
    /\ moves = <<>>
    /\ evaluations = <<>>
    /\ randoms = <<>>
    /\ previousEval = Undefined
    /\ triggers = <<>>
    /\ schedule = <<>>
    /\ analysis = NoAnalysis
    /\ sounds = <<>>
    /\ atmosphere = <<>>
    /\ input \in FilterInputs
    /\ maxFrameDistance \in FilterWindows
    /\ pos = 0
    /\ filtered = <<>>
    /\ catalog = SOUND_EFFECTS

\* lines 219-229: the forEach callback on the next trigger
FilterVisit ==
    /\ pc = "filter"
    /\ pos < Len(input)
    /\ filtered' = filterStep(filtered, input[pos + 1], maxFrameDistance)
    /\ pos' = pos + 1
    /\ UNCHANGED <<pc, catalog, settings, moves, evaluations, randoms, previousEval,
                   triggers, schedule, analysis, sounds, atmosphere, input,
                   maxFrameDistance>>

\* line 231: return filtered
FilterReturn ==
    /\ pc = "filter"
    /\ pos = Len(input)
    /\ pc' = "filtered"
    /\ UNCHANGED <<catalog, settings, moves, evaluations, randoms, previousEval, triggers,
                   schedule, analysis, sounds, atmosphere, input,
                   maxFrameDistance, pos, filtered>>

NextFilter == FilterVisit \/ FilterReturn

SpecFilter == InitFilter /\ [][NextFilter]_vars

--------------------------------------------------------------------------
(* The caller of the README run to completion, the filter one iteration a  *)
(* step                                                                    *)

\* every sound enabled, and the master switch off
RunSettings ==
    { DEFAULT_SOUND_SETTINGS, [DEFAULT_SOUND_SETTINGS EXCEPT !.enabled = FALSE] }

InitRun ==
    /\ pc = "forEach"
    /\ settings \in RunSettings
    /\ moves = <<>>
    /\ evaluations = <<>>
    /\ randoms = <<>>
    /\ previousEval = Undefined
    /\ triggers = <<>>
    /\ schedule = <<>>
    /\ analysis = NoAnalysis
    /\ sounds = <<>>
    /\ atmosphere = <<>>
    /\ input = <<>>
    /\ maxFrameDistance = DefaultMaxFrameDistance
    /\ pos = 0
    /\ filtered = <<>>
    /\ catalog = SOUND_EFFECTS

\* a quiet move and a checkmate that captures a pawn
RunOutcomes ==
    { Outcome(NoPiece, FALSE, FALSE, FALSE, FALSE),
      Outcome("p",     TRUE,  TRUE,  FALSE, FALSE) }

RunEvaluations == {Some(0), Some(400)}

ProcessRunMove == forEachCallback(RunOutcomes, RunEvaluations, MaxMoves)

\* lines 213-217: filterOverlappingSounds is entered with the returned schedule
CallFilter ==
    /\ pc = "returned"
    /\ input' = schedule
    /\ pos' = 0
    /\ filtered' = <<>>
    /\ pc' = "filter"
    /\ UNCHANGED <<catalog, settings, moves, evaluations, randoms, previousEval,
                   triggers, schedule, analysis, sounds, atmosphere,
                   maxFrameDistance>>

NextRun ==
    ProcessRunMove \/ ReturnSchedule \/ CallFilter \/ FilterVisit \/ FilterReturn

\* the calls are synchronous: a run that can take a step takes one
SpecRun == InitRun /\ [][NextRun]_vars /\ WF_vars(NextRun)

--------------------------------------------------------------------------
(* The three functions called again and again in one process: the          *)
(* variables hold the arguments and the result of the latest call          *)

\* full and half volume, the master switch off, the atmosphere off
ReuseSettings ==
    { Settings(TRUE,  TRUE, TRUE, TRUE,  FALSE, TRUE, 100),
      Settings(TRUE,  TRUE, TRUE, TRUE,  FALSE, TRUE, 50),
      Settings(FALSE, TRUE, TRUE, TRUE,  FALSE, TRUE, 100),
      Settings(TRUE,  TRUE, TRUE, FALSE, FALSE, TRUE, 50) }

\* a quiet move, a queen capture and a checkmate that captures a pawn
ReuseOutcomes ==
    { Outcome(NoPiece, FALSE, FALSE, FALSE, FALSE),
      Outcome("q",     FALSE, FALSE, FALSE, FALSE),
      Outcome("p",     TRUE,  TRUE,  FALSE, FALSE) }

ReuseEvaluations == {Undefined, Some(0), Some(400)}

\* a checkmate cue, and a capture and a crowd cue five frames later
ReuseTriggers ==
    { Trigger(getSoundEffect("checkmate"), 0, getPriority(getSoundEffect("checkmate"))),
      Trigger(getSoundEffect("capture-pawn"), 5,
              getPriority(getSoundEffect("capture-pawn"))),
      Trigger(getSoundEffect("gasp-01"), 5, getPriority(getSoundEffect("gasp-01"))) }

\* trigger arrays of up to two elements
ReuseInputs == UNION { [1..n -> ReuseTriggers] : n \in 0..2 }

ReuseWindows == {0, DefaultMaxFrameDistance}

InitReuse ==
    /\ pc = "loaded"
    /\ catalog = SOUND_EFFECTS
    /\ settings = DEFAULT_SOUND_SETTINGS
    /\ moves = <<>>
    /\ evaluations = <<>>
    /\ randoms = <<>>
    /\ previousEval = Undefined
    /\ triggers = <<>>
    /\ schedule = <<>>
    /\ analysis = NoAnalysis
    /\ sounds = <<>>
    /\ atmosphere = <<>>
    /\ input = <<>>
    /\ maxFrameDistance = DefaultMaxFrameDistance
    /\ pos = 0
    /\ filtered = <<>>

\* faulty variant of CallAnalyze: the map scales the catalog entries in place
CallAnalyzeInPlace ==
    /\ pc # "filter"
    /\ \E s \in ReuseSettings, outcome \in ReuseOutcomes,
          evaluation \in ReuseEvaluations, previousEvaluation \in ReuseEvaluations :
         LET a == MoveAnalysis(outcome, evaluation, previousEvaluation, 1)
         IN  \E r \in RandomDraws(a, s) :
               /\ ~analyzeMoveForSoundsThrows(catalog, a, s, r)
               /\ settings' = s
               /\ analysis' = a
               /\ randoms' = <<r>>
               /\ sounds' = analyzeMoveForSoundsIn(catalog, a, s, r)
               /\ catalog' =
                    LET pushed == IF s.enabled
                                  THEN pushedSoundsIn(catalog, a, s, r) ELSE <<>>
                    IN  [category \in DOMAIN catalog |->
                          [i \in 1..Len(catalog[category]) |->
                            IF \E k \in 1..Len(pushed) :
                                  pushed[k].id = catalog[category][i].id
                            THEN ScaleVolume(catalog[category][i], 50, s)
                            ELSE catalog[category][i]]]
    /\ pc' = "classified"
    /\ atmosphere' = <<>>
    /\ input' = <<>>
    /\ pos' = 0
    /\ filtered' = <<>>
    /\ UNCHANGED <<moves, evaluations, previousEval, triggers, schedule,
                   maxFrameDistance>>

\* a call of analyzeMoveForSounds: it reads the catalog and writes copies
CallAnalyze ==
    /\ pc # "filter"
    /\ \E s \in ReuseSettings, outcome \in ReuseOutcomes,
          evaluation \in ReuseEvaluations, previousEvaluation \in ReuseEvaluations :
         LET a == MoveAnalysis(outcome, evaluation, previousEvaluation, 1)
         IN  \E r \in RandomDraws(a, s) :
               /\ ~analyzeMoveForSoundsThrows(catalog, a, s, r)
               /\ settings' = s
               /\ analysis' = a
               /\ randoms' = <<r>>
               /\ sounds' = analyzeMoveForSoundsIn(catalog, a, s, r)
    /\ pc' = "classified"
    /\ atmosphere' = <<>>
    /\ input' = <<>>
    /\ pos' = 0
    /\ filtered' = <<>>
    /\ UNCHANGED <<catalog, moves, evaluations, previousEval, triggers, schedule,
                   maxFrameDistance>>

\* a call of getAtmosphereSounds
CallAtmosphere ==
    /\ pc # "filter"
    /\ \E s \in ReuseSettings, gamePhase \in GamePhases :
         /\ settings' = s
         /\ atmosphere' = getAtmosphereSoundsIn(catalog, gamePhase, s)
    /\ pc' = "atmosphere"
    /\ analysis' = NoAnalysis
    /\ randoms' = <<>>
    /\ sounds' = <<>>
    /\ input' = <<>>
    /\ pos' = 0
    /\ filtered' = <<>>
    /\ UNCHANGED <<catalog, moves, evaluations, previousEval, triggers, schedule,
                   maxFrameDistance>>

\* filterOverlappingSounds is entered with an array and a window
CallFilterOn ==
    /\ pc # "filter"
    /\ input' \in ReuseInputs
    /\ maxFrameDistance' \in ReuseWindows
    /\ pos' = 0
    /\ filtered' = <<>>
    /\ pc' = "filter"
    /\ analysis' = NoAnalysis
    /\ randoms' = <<>>
    /\ sounds' = <<>>
    /\ atmosphere' = <<>>
    /\ UNCHANGED <<catalog, settings, moves, evaluations, previousEval, triggers,
                   schedule>>

NextReuse ==
    CallAnalyze \/ CallAtmosphere \/ CallFilterOn \/ FilterVisit \/ FilterReturn

SpecReuse == InitReuse /\ [][NextReuse]_vars

--------------------------------------------------------------------------
(* Properties                                                              *)

\* the ordering invariant of a schedule
Ordered(list) ==
    \A i \in 1..(Len(list) - 1) :
        /\ list[i].startFrame <= list[i + 1].startFrame
        /\ list[i].startFrame = list[i + 1].startFrame
              => list[i].priority >= list[i + 1].priority

\* C1: the list generateSoundSchedule returns, and the list obtained by passing
\* it through filterOverlappingSounds, are in non-decreasing startFrame order,
\* and in non-increasing priority order where the start frames are equal.
C1_OrderingInvariant ==
    /\ pc \in {"returned", "done"} => Ordered(schedule)
    /\ pc = "done" => Ordered(filtered)

\* a run whose schedule has cues of two moves and whose filtered list keeps
\* more than one of them
C1_Witness ==
    /\ pc = "done"
    /\ Len(schedule) >= 3
    /\ Len(filtered) >= 2
    /\ schedule[1].startFrame < schedule[Len(schedule)].startFrame - SoundOffset * 2

\* every MoveAnalysis the classifier is given on its own, with every draw
AllAnalyses ==
    { MoveAnalysis(outcome, evaluation, previousEvaluation, 1) :
        outcome \in ClassifierOutcomes, evaluation \in ClassifierEvaluations,
        previousEvaluation \in ClassifierEvaluations }

\* C2: with settings.enabled false, generateSoundSchedule returns the empty
\* schedule whatever the moves, the evaluations and the other flags, and
\* analyzeMoveForSounds returns no cue for every event.
C2_MasterDisable ==
    ~settings.enabled =>
        /\ sounds = <<>>
        /\ triggers = <<>>
        /\ schedule = <<>>
        /\ moves = <<>> =>
              \A a \in AllAnalyses, r \in RandomIndexes("crowd_reaction") :
                  analyzeMoveForSounds(a, settings, r) = <<>>

\* a disabled run over a capturing checkmate that follows an evaluation swing,
\* every category flag being on
C2_Witness ==
    /\ pc = "returned"
    /\ ~settings.enabled
    /\ settings.capturesEnabled /\ settings.crowdEnabled
    /\ settings.specialMovesEnabled /\ settings.atmosphereEnabled
    /\ Len(moves) = 2
    /\ moves[2].isCheckmate /\ moves[2].captured # NoPiece
    /\ evaluations = <<Some(0), Some(400)>>
    /\ schedule = <<>>

IsCapture(t) == t.soundEffect.category = "piece_capture"

NotCapture(t) == ~IsCapture(t)

\* 0-based index of the move whose base frame is the last one at or before
\* the trigger's start frame
MoveOf(t) == (t.startFrame - IntroDuration) \div FrameDurationPerMove

\* the schedule of the run's moves, evaluations and draws with capturesEnabled
\* set to b; it is the returned schedule itself when b is the run's setting
ScheduleWithCaptures(b) ==
    IF settings.capturesEnabled = b THEN schedule
    ELSE generateSoundSchedule(moves, evaluations, randoms,
                               [settings EXCEPT !.capturesEnabled = b])

\* C3 as stated: the schedule built with capturesEnabled=false has no capture
\* cue and is exactly the non-capture cues of the schedule built with
\* capturesEnabled=true, each with the same sound, start frame and priority.
C3_CaptureDisableSameFrames ==
    pc = "returned" =>
        /\ \A i \in 1..Len(ScheduleWithCaptures(FALSE)) :
              NotCapture(ScheduleWithCaptures(FALSE)[i])
        /\ ScheduleWithCaptures(FALSE)
              = SelectSeq(ScheduleWithCaptures(TRUE), NotCapture)

\* whether a capture cue of the same move precedes cue t in the list
FollowsCapture(list, t) ==
    \E i \in 1..Len(list) :
        /\ IsCapture(list[i])
        /\ MoveOf(list[i]) = MoveOf(t)
        /\ list[i].startFrame < t.startFrame

\* C3 amended: the schedule built with capturesEnabled=false has no capture
\* cue and consists of the non-capture cues of the schedule built with
\* capturesEnabled=true, in the same order, each with the same sound and the
\* same priority; the start frame is the same too, except that a cue which
\* follows a capture cue of its own move starts SoundOffset frames earlier.
C3_CaptureDisable ==
    pc = "returned" =>
        LET off == ScheduleWithCaptures(FALSE)
            on == ScheduleWithCaptures(TRUE)
            kept == SelectSeq(on, NotCapture)
        IN  /\ \A i \in 1..Len(off) : NotCapture(off[i])
            /\ Len(off) = Len(kept)
            /\ \A i \in 1..Len(off) :
                  /\ off[i].soundEffect = kept[i].soundEffect
                  /\ off[i].priority = kept[i].priority
                  /\ off[i].startFrame =
                        IF FollowsCapture(on, kept[i])
                        THEN kept[i].startFrame - SoundOffset
                        ELSE kept[i].startFrame

\* a run with captures disabled in which a move both captures and draws a
\* crowd reaction: with captures enabled the crowd cue is 5 frames later
C3_Witness ==
    /\ pc = "returned"
    /\ ~settings.capturesEnabled
    /\ \E i \in 1..Len(schedule) :
          /\ schedule[i].soundEffect.category = "crowd_reaction"
          /\ \E j \in 1..Len(ScheduleWithCaptures(TRUE)) :
                /\ ScheduleWithCaptures(TRUE)[j].soundEffect = schedule[i].soundEffect
                /\ ScheduleWithCaptures(TRUE)[j].startFrame
                      = schedule[i].startFrame + SoundOffset
                /\ FollowsCapture(ScheduleWithCaptures(TRUE),
                                  ScheduleWithCaptures(TRUE)[j])

\* cue k suppresses cue c under window w
Dominates(k, c, w) ==
    /\ Abs(k.startFrame - c.startFrame) < w
    /\ k.priority >= c.priority

\* no cue of the list is dominated by a cue before it in the list
NoneDominated(list, w) ==
    \A i \in 1..Len(list), j \in 1..Len(list) :
        i < j => ~Dominates(list[i], list[j], w)

\* C4: filterOverlappingSounds visits the input cues in input order with an
\* accumulating kept list; it discards the candidate exactly when a cue in the
\* kept list is less than W frames away with a priority at least as high, and
\* appends it otherwise; so after every step no kept cue is dominated by a cue
\* kept before it.
C4_GreedyDiscardRule ==
    /\ [](pc \in {"filter", "filtered"} => NoneDominated(filtered, maxFrameDistance))
    /\ [][pos' # pos =>
            /\ pos' = pos + 1
            /\ LET c == input[pos + 1]
                   dominated == \E i \in 1..Len(filtered) :
                                    Dominates(filtered[i], c, maxFrameDistance)
               IN  /\ dominated => filtered' = filtered
                   /\ ~dominated => filtered' = Append(filtered, c)]_vars

\* a finished call that discarded one cue and kept two
C4_Witness ==
    /\ pc = "filtered"
    /\ Len(input) = 3
    /\ Len(filtered) = 2
    /\ maxFrameDistance = 15

\* C5 as stated: for every maxFrameDistance > 0 the output never has two cues
\* whose start frames are less than maxFrameDistance apart, and of any two input
\* cues less than maxFrameDistance apart with different priorities the one of
\* lower priority is absent from the output.
C5_OnlyHighestInWindow ==
    (pc = "filtered" /\ maxFrameDistance > 0) =>
        /\ \A i \in 1..Len(filtered), j \in 1..Len(filtered) :
              i # j => Abs(filtered[i].startFrame - filtered[j].startFrame)
                          >= maxFrameDistance
        /\ \A i \in 1..Len(input), j \in 1..Len(input) :
              (/\ Abs(input[i].startFrame - input[j].startFrame) < maxFrameDistance
               /\ input[i].priority < input[j].priority)
                  => input[i] \notin Range(filtered)

\* C6 as stated: of two cues of priorities 5 and 3 whose start frames differ by
\* 5, with window 15, only the priority-5 cue is output, whichever comes first
\* in the input and whichever starts earlier; two cues of priority 3 whose
\* start frames differ by 20 are both output.
C6_TwoCueSuppression ==
    (pc = "filtered" /\ maxFrameDistance = 15 /\ Len(input) = 2) =>
        /\ (/\ {input[1].priority, input[2].priority} = {5, 3}
            /\ Abs(input[1].startFrame - input[2].startFrame) = 5)
              => \E i \in 1..2 : input[i].priority = 5 /\ filtered = <<input[i]>>
        /\ (/\ input[1].priority = 3 /\ input[2].priority = 3
            /\ Abs(input[1].startFrame - input[2].startFrame) = 20)
              => filtered = input

\* whether list a is a prefix of list b
IsPrefix(a, b) == Len(a) <= Len(b) /\ SubSeq(b, 1, Len(a)) = a

\* C7: when the cue being visited has the same priority as a cue already kept
\* (so one that precedes it in the input) and is less than W frames from it,
\* it is discarded and the kept cue stays, whichever of the two has the earlier
\* start frame; a cue once kept stays in the list.
C7_FirstWinsTie ==
    [][pos' # pos =>
          /\ IsPrefix(filtered, filtered')
          /\ (\E i \in 1..Len(filtered) :
                /\ filtered[i].priority = input[pos + 1].priority
                /\ Abs(filtered[i].startFrame - input[pos + 1].startFrame)
                      < maxFrameDistance)
                => filtered' = filtered]_vars

\* two cues of equal priority 5 frames apart, the later one first in the
\* input: the first in the input is the one that is output
C7_Witness ==
    /\ pc = "filtered"
    /\ maxFrameDistance = 15
    /\ Len(input) = 2
    /\ input[1].priority = input[2].priority
    /\ input[1].startFrame = input[2].startFrame + 5
    /\ filtered = <<input[1]>>

\* C8 as stated: generateSoundSchedule runs the overlap filter before it
\* returns, so in the schedule it returns no cue follows a cue less than 15
\* frames away with a priority at least as high.
C8_ScheduleIsFiltered ==
    pc \in {"returned", "done"} => NoneDominated(schedule, DefaultMaxFrameDistance)

\* whether the list has the special-move cue of a move and the capture cue of
\* the same move SoundOffset frames later
HasSpecialThenCapture(list) ==
    \E i \in 1..Len(list), j \in 1..Len(list) :
        /\ list[i].soundEffect.category = "special_moves"
        /\ IsCapture(list[j])
        /\ list[j].startFrame = list[i].startFrame + SoundOffset

\* C8 amended: generateSoundSchedule returns the sorted triggers unfiltered (a
\* capturing checkmate yields both its special-move cue and its capture cue 5
\* frames later); it is the list the caller obtains by passing that schedule
\* through filterOverlappingSounds with window 15 in which no cue follows a
\* retained cue less than 15 frames away with a priority at least as high, and
\* which holds no special-move cue together with the capture cue of its move.
C8_FilteredScheduleIsResolved ==
    /\ pc \in {"returned", "done"} =>
          /\ Len(schedule) = Len(triggers)
          /\ (\E i \in 1..Len(moves) :
                /\ moves[i].isCheckmate /\ moves[i].captured # NoPiece
                /\ settings.enabled /\ settings.specialMovesEnabled
                /\ settings.capturesEnabled)
                => HasSpecialThenCapture(schedule)
    /\ pc = "done" =>
          /\ NoneDominated(filtered, DefaultMaxFrameDistance)
          /\ ~HasSpecialThenCapture(filtered)

\* a capturing checkmate: the returned schedule has both cues, the filtered
\* list only the special-move cue
C8_Witness ==
    /\ pc = "done"
    /\ analysis.isCheckmate /\ analysis.capturedPiece # NoPiece
    /\ HasSpecialThenCapture(schedule)
    /\ ~HasSpecialThenCapture(filtered)
    /\ \E i \in 1..Len(filtered) : filtered[i].soundEffect.id = "checkmate"

\* the cues of the list that play the tournament-hall sound
HallCues(list) ==
    SelectSeq(list, LAMBDA t : t.soundEffect.id = "tournament-hall")

\* C9 as stated: with enabled and atmosphereEnabled true, the schedule
\* generateSoundSchedule returns holds the tournament-hall cue exactly once,
\* with priority 1, for every move sequence.
C9_ScheduleHasAmbientCue ==
    (pc \in {"returned", "done"} /\ settings.enabled /\ settings.atmosphereEnabled)
        => /\ Len(HallCues(schedule)) = 1
           /\ HallCues(schedule)[1].priority = 1

\* C9 amended: generateSoundSchedule never queries the ambient cues, and the
\* schedule it returns holds no atmosphere cue for any move sequence; the
\* tournament-hall cue comes only from a separate call of getAtmosphereSounds,
\* which with the settings of the run returns exactly that one cue (of
\* priority rank 1, without a start frame) when enabled and atmosphereEnabled
\* are true and nothing otherwise, whatever the moves, the empty sequence
\* included.
C9_AmbientOnlyFromQuery ==
    /\ \A i \in 1..Len(triggers) : triggers[i].soundEffect.category # "atmosphere"
    /\ \A i \in 1..Len(schedule) : schedule[i].soundEffect.category # "atmosphere"
    /\ IF settings.enabled /\ settings.atmosphereEnabled
       THEN /\ Len(getAtmosphereSounds("middlegame", settings)) = 1
            /\ getAtmosphereSounds("middlegame", settings)[1].id = "tournament-hall"
            /\ getPriority(getAtmosphereSounds("middlegame", settings)[1]) = 1
       ELSE getAtmosphereSounds("middlegame", settings) = <<>>

\* a run with both flags on whose schedule has cues: none of them is the
\* ambient cue, which the separate query returns
C9_Witness ==
    /\ pc = "done"
    /\ settings.enabled /\ settings.atmosphereEnabled
    /\ Len(schedule) >= 2
    /\ Len(HallCues(schedule)) = 0
    /\ Len(getAtmosphereSounds("middlegame", settings)) = 1

\* the identifiers of the special_moves cues of a list of sounds
SpecialIds(list) ==
    LET special == SelectSeq(list, LAMBDA e : e.category = "special_moves")
    IN  [i \in 1..Len(special) |-> special[i].id]

\* C10: analyzeMoveForSounds emits at most one special_moves cue, the one the
\* precedence checkmate > check > castle > promotion selects over the event's
\* flags, and none when specialMovesEnabled (or enabled) is false.
C10_SpecialMovePrecedence ==
    pc = "classified" =>
        /\ Len(SpecialIds(sounds)) <= 1
        /\ SpecialIds(sounds) =
              IF ~settings.enabled \/ ~settings.specialMovesEnabled THEN <<>>
              ELSE IF analysis.isCheckmate THEN <<"checkmate">>
              ELSE IF analysis.isCheck THEN <<"check">>
              ELSE IF analysis.isCastle THEN <<"castle">>
              ELSE IF analysis.isPromotion THEN <<"promotion">>
              ELSE <<>>

\* castling that gives check, with a capture flag set as well: only the check
\* cue is emitted among the special moves
C10_Witness ==
    /\ pc = "classified"
    /\ settings.enabled /\ settings.specialMovesEnabled
    /\ analysis.isCastle /\ analysis.isCheck /\ analysis.isPromotion
    /\ ~analysis.isCheckmate
    /\ SpecialIds(sounds) = <<"check">>

--------------------------------------------------------------------------
(* Capture tiers and crowd reactions                                       *)

\* the cues of a list that belong to a category
CuesOf(list, category) ==
    {i \in 1..Len(list) : list[i].category = category}

\* the tier the catalog documents for a piece code
TierOf(piece) ==
    IF piece \in {"n", "N", "b", "B"} THEN "capture-minor"
    ELSE IF piece \in {"r", "R"} THEN "capture-rook"
    ELSE IF piece \in {"q", "Q"} THEN "capture-queen"
    ELSE "capture-pawn"

\* C11: the capture tier is a function of the piece code alone: pawn for p,
\* minor for n and b, rook for r, queen for q in either case and pawn for any
\* other code; with sounds and captures enabled a capturing move yields
\* exactly one capture cue, and it is the cue of that tier.
C11_CaptureTier ==
    /\ \A piece \in CapturedPieces :
         /\ getCaptureSound(piece).id = TierOf(piece)
         /\ getCaptureSound(piece).category = "piece_capture"
    /\ (pc = "classified" /\ settings.enabled /\ settings.capturesEnabled
          /\ analysis.capturedPiece # NoPiece)
         => /\ Cardinality(CuesOf(sounds, "piece_capture")) = 1
            /\ \A i \in CuesOf(sounds, "piece_capture") :
                 sounds[i].id = TierOf(analysis.capturedPiece)

\* a checking capture of an upper-case queen or of an unknown code was classified
C11_Witness ==
    /\ pc = "classified"
    /\ settings.enabled /\ settings.capturesEnabled
    /\ analysis.capturedPiece \in {"Q", "x"}
    /\ analysis.isCheck
    /\ Cardinality(CuesOf(sounds, "piece_capture")) = 1
\* evaluation - previousEvaluation of the classified move
Delta == analysis.evaluation[1] - analysis.previousEvaluation[1]

\* the crowd cues of the classified move
CrowdCues == CuesOf(sounds, "crowd_reaction")

C13_DropOf200IsGasp ==
    (pc = "classified" /\ settings = DEFAULT_SOUND_SETTINGS
       /\ analysis.evaluation = Some(50) /\ analysis.previousEvaluation = Some(250)
       /\ analysis.capturedPiece = NoPiece
       /\ ~analysis.isCheck /\ ~analysis.isCheckmate)
    => /\ Len(sounds) = 1
       /\ sounds[1].id \in {"gasp-01", "gasp-02"}
--------------------------------------------------------------------------
(* The schedule builder: evaluations, frames and priorities                *)

\* the triggers move i (1-based) contributed to a list
TriggersOfMove(list, i) ==
    {k \in 1..Len(list) : MoveOf(list[k]) = i - 1}

\* C14: the analysis of move i carries evaluations[i] and, as its previous
\* evaluation, the entry of move i - 1 (none for the first move); a move
\* contributes a crowd cue only if it is not the first and both its own entry
\* and the entry of the move before it are present.
C14_PreviousEvaluation ==
    LET n == Len(moves)
    IN  /\ n >= 1 =>
             /\ analysis.moveNumber = n
             /\ analysis.evaluation = evaluations[n]
             /\ analysis.previousEvaluation =
                   (IF n = 1 THEN Undefined ELSE evaluations[n - 1])
        /\ \A i \in 1..n :
             (\E k \in TriggersOfMove(triggers, i) :
                  triggers[k].soundEffect.category = "crowd_reaction")
             => /\ i >= 2
                /\ IsDefined(evaluations[i])
                /\ IsDefined(evaluations[i - 1])

\* a game 250, absent, 30 was scheduled and no move got a crowd cue
C14_Witness ==
    /\ pc = "returned"
    /\ settings.crowdEnabled
    /\ evaluations = <<Some(250), Undefined, Some(30)>>
    /\ \A k \in 1..Len(schedule) :
         schedule[k].soundEffect.category # "crowd_reaction"
\* position in triggers of the soundIndex-th sound (1-based) of the last move
LastMoveTrigger(soundIndex) == Len(triggers) - Len(sounds) + soundIndex

\* C15: calculateSoundFrameTiming returns introDuration + moveIndex *
\* frameDurationPerMove for every non-negative index, whatever fps is, and
\* the first cue of the n-th move (1-based) starts on 90 + 30 * (n - 1).
C15_BaseFrame ==
    /\ \A n \in 1..(MaxMoves + 1), fps \in {24, 30, 60},
          leadInFrames \in {0, 90}, framesPerEvent \in {30, 45} :
         calculateSoundFrameTiming(n - 1, fps, leadInFrames, framesPerEvent)
            = leadInFrames + (n - 1) * framesPerEvent
    /\ (Len(moves) >= 1 /\ sounds # <<>>)
         => triggers[LastMoveTrigger(1)].startFrame = 90 + 30 * (Len(moves) - 1)

\* the second move of a game produced a cue, and it starts on frame 120
C15_Witness ==
    /\ pc = "forEach"
    /\ Len(moves) = 2
    /\ sounds # <<>>
    /\ triggers[LastMoveTrigger(1)].startFrame = 120

\* C16: the i-th sound (0-based) of a move is stamped with the move's base
\* frame plus 5 * i, so the cues of one move have pairwise different start
\* frames, and every start frame is a natural number.
C16_StaggeredFrames ==
    /\ Len(moves) >= 1 =>
         LET baseFrame == calculateSoundFrameTiming(Len(moves) - 1, DefaultFps,
                                                    IntroDuration, FrameDurationPerMove)
         IN  /\ \A i \in 0..(Len(sounds) - 1) :
                  /\ triggers[LastMoveTrigger(i + 1)].soundEffect = sounds[i + 1]
                  /\ triggers[LastMoveTrigger(i + 1)].startFrame = baseFrame + i * 5
             /\ \A i, j \in 1..Len(sounds) :
                  i # j => triggers[LastMoveTrigger(i)].startFrame
                             # triggers[LastMoveTrigger(j)].startFrame
    /\ \A k \in 1..Len(triggers) : triggers[k].startFrame \in Nat
    /\ \A k \in 1..Len(schedule) : schedule[k].startFrame \in Nat

\* the second move produced three cues, on frames 120, 125 and 130
C16_Witness ==
    /\ pc = "forEach"
    /\ Len(moves) = 2
    /\ Len(sounds) = 3
    /\ triggers[LastMoveTrigger(1)].startFrame = 120
    /\ triggers[LastMoveTrigger(2)].startFrame = 125
    /\ triggers[LastMoveTrigger(3)].startFrame = 130

\* the rank the README gives a category
RankOf(category) ==
    IF category = "special_moves" THEN 5
    ELSE IF category = "crowd_reaction" THEN 4
    ELSE IF category = "piece_capture" THEN 3
    ELSE IF category = "clock" THEN 2
    ELSE IF category = "atmosphere" THEN 1
    ELSE 0

\* C17: the priority of a cue is the rank of its category, 0 for a category
\* outside the catalog; every cue of a schedule has a priority in 0..5, and
\* two cues of a schedule have the same priority exactly when they have the
\* same category.
C17_PriorityLookup ==
    /\ \A c \in Range(CategoryOrder) : \A sound \in Range(SOUND_EFFECTS[c]) :
         getPriority(sound) = RankOf(c)
    /\ getPriority(Sound("custom", "interface", 50)) = 0
    /\ \A list \in {triggers, schedule, filtered} :
         /\ \A k \in 1..Len(list) :
              /\ list[k].priority = RankOf(list[k].soundEffect.category)
              /\ list[k].priority \in 0..5
         /\ \A k, l \in 1..Len(list) :
              (list[k].priority = list[l].priority)
                 <=> (list[k].soundEffect.category = list[l].soundEffect.category)

\* a returned schedule holds cues of all three categories a move can produce
C17_Witness ==
    /\ pc = "returned"
    /\ {schedule[k].priority : k \in 1..Len(schedule)} = {3, 4, 5}
--------------------------------------------------------------------------
(* The three-move walkthrough                                              *)

\* a queen capture, a quiet move and a checkmate, every sound enabled
WalkthroughGame ==
    /\ moves = << Outcome("q",     FALSE, FALSE, FALSE, FALSE),
                  Outcome(NoPiece, FALSE, FALSE, FALSE, FALSE),
                  Outcome(NoPiece, TRUE,  TRUE,  FALSE, FALSE) >>
    /\ settings.enabled /\ settings.capturesEnabled
    /\ settings.crowdEnabled /\ settings.specialMovesEnabled

\* a list holds exactly a capture cue on 90, a crowd cue on 120 and the
\* checkmate cue on 150, with priorities 3, 4 and 5
ThreeCues(list) ==
    /\ Len(list) = 3
    /\ list[1].soundEffect.category = "piece_capture"
    /\ list[1].startFrame = 90 /\ list[1].priority = 3
    /\ list[2].soundEffect.category = "crowd_reaction"
    /\ list[2].startFrame = 120 /\ list[2].priority = 4
    /\ list[3].soundEffect.id = "checkmate"
    /\ list[3].startFrame = 150 /\ list[3].priority = 5

UsesRandomAt(i) ==
    UsesRandom(MoveAnalysis(moves[i], evaluations[i],
                            previousEvalAt(evaluations, i - 1), i), settings)

\* the draws of a second run: those of this run wherever a move consults
\* Math.random, and other wherever none does
SecondRunDraws(other) ==
    [i \in 1..Len(moves) |-> IF UsesRandomAt(i) THEN randoms[i] ELSE other]

\* C19: a second run of generateSoundSchedule and filterOverlappingSounds on
\* the same moves, evaluations and settings, in which Math.random yields the
\* same values in the branch for changes above 200 and anything at all
\* elsewhere, returns the schedule and the filtered list of this run.
C19_Determinism ==
    pc \in {"returned", "done"} =>
        \A other \in RandomIndexes("crowd_reaction") :
            LET second == generateSoundSchedule(moves, evaluations,
                                                SecondRunDraws(other), settings)
            IN  /\ second = schedule
                /\ pc = "done" =>
                     filterOverlappingSounds(second, maxFrameDistance) = filtered

\* a three-move game was scheduled and filtered in which one move drew the
\* cheer reaction at random and another got the applause without a draw
C19_Witness ==
    /\ pc = "done"
    /\ Len(moves) = 3
    /\ \E i \in 1..3 : UsesRandomAt(i) /\ randoms[i] = 5
    /\ \E k \in 1..Len(filtered) : filtered[k].soundEffect.id = "cheer"
    /\ \E k \in 1..Len(filtered) : filtered[k].soundEffect.id = "applause-01"
--------------------------------------------------------------------------
(* The classifier over an edited catalog                                   *)

\* the entries of the catalog the module holds
CatalogEntries ==
    UNION {Range(catalog[CategoryOrder[k]]) : k \in 1..Len(CategoryOrder)}

\* C20: whatever the move, the settings and the catalog, an empty capture or
\* crowd list and a missing identifier included, analyzeMoveForSounds does
\* not raise, and every element of the array it returns is an entry of the
\* catalog (with its volume scaled), never undefined.
C20_ClassifierNeverFails ==
    /\ pc # "TypeError"
    /\ pc = "classified" =>
         \A i \in 1..Len(sounds) :
            /\ sounds[i] # NoSound
            /\ \E e \in CatalogEntries :
                 e.id = sounds[i].id /\ e.category = sounds[i].category
--------------------------------------------------------------------------
(* The ambient query                                                       *)

\* C21: getAtmosphereSounds returns the empty list when enabled or
\* atmosphereEnabled is false, and otherwise exactly the tournament-hall
\* entry with its volume multiplied by masterVolume; any gamePhase gives the
\* same result.
C21_AmbientQuery ==
    pc = "atmosphere" =>
        /\ \A gamePhase \in GamePhases :
             getAtmosphereSounds(gamePhase, settings) = atmosphere
        /\ IF settings.enabled /\ settings.atmosphereEnabled
           THEN atmosphere = << [id |-> "tournament-hall",
                                 category |-> "atmosphere",
                                 volume |-> 15 * settings.masterVolume] >>
           ELSE atmosphere = <<>>

\* the query returned the hall at half volume
C21_Witness ==
    /\ pc = "atmosphere"
    /\ settings.masterVolume = 50
    /\ Len(atmosphere) = 1
    /\ atmosphere[1].volume = 750
--------------------------------------------------------------------------
(* Termination and completeness of a run                                   *)

\* C22: a run ends with filterOverlappingSounds returning; each forEach step
\* of generateSoundSchedule takes the next move in order and appends at most
\* three triggers; each forEach step of the filter decides the next trigger
\* of its input, and the kept list stays or grows by that trigger at its
\* end; the filter returns only when every trigger is decided, and the
\* returned lists are complete and no longer than the triggers produced.
C22_RunTerminates ==
    /\ <>(pc = "filtered")
    /\ [][ /\ (pc = "forEach" /\ pc' = "forEach") =>
                /\ Len(moves') = Len(moves) + 1
                /\ SubSeq(moves', 1, Len(moves)) = moves
                /\ analysis'.moveNumber = Len(moves')
                /\ IsPrefix(triggers, triggers')
                /\ Len(triggers') <= Len(triggers) + 3
           /\ (pc = "filter" /\ pc' = "filter") =>
                /\ pos' = pos + 1
                /\ input' = input
                /\ \/ filtered' = filtered
                   \/ filtered' = Append(filtered, input[pos'])
           /\ (pc = "filter" /\ pc' = "filtered") =>
                (pos = Len(input) /\ filtered' = filtered) ]_vars
    /\ [](pc \in {"returned", "filter", "filtered"} =>
            /\ Len(schedule) = Len(triggers)
            /\ Len(schedule) <= 3 * Len(moves)
            /\ ~settings.enabled => schedule = <<>>)
    /\ [](pc = "filtered" =>
            /\ input = schedule
            /\ pos = Len(input)
            /\ Len(filtered) <= Len(input))

\* a two-move game with a three-cue move ran to the end and the filter
\* discarded a cue
C22_Witness ==
    /\ pc = "filtered"
    /\ Len(moves) = 2
    /\ Len(sounds) = 3
    /\ pos = Len(input)
    /\ Len(filtered) < Len(input)
--------------------------------------------------------------------------
(* No stage writes what it is given                                        *)

\* every element of a returned list is a catalog entry with its volume
\* multiplied by masterVolume
ScaledCopies(list) ==
    \A i \in 1..Len(list) :
        \E e \in CatalogEntries :
            /\ e.id = list[i].id
            /\ e.category = list[i].category
            /\ list[i].volume = e.volume * settings.masterVolume

\* C23: however often and with whatever masterVolume the three functions
\* are called, the catalog keeps its initial value; the sounds
\* analyzeMoveForSounds and getAtmosphereSounds return are scaled copies of
\* its entries; and filterOverlappingSounds never changes the array it was
\* given while it builds its result.
C23_NoStageMutates ==
    /\ [](catalog = SOUND_EFFECTS)
    /\ [][ /\ catalog' = catalog
           /\ pc = "filter" => input' = input ]_vars
    /\ [](pc = "classified" => ScaledCopies(sounds))
    /\ [](pc = "atmosphere" => ScaledCopies(atmosphere))
    /\ [](pc = "filtered" =>
            filtered = filterOverlappingSounds(input, maxFrameDistance))

\* a capturing checkmate was classified at half volume: the returned
\* checkmate sound has the scaled volume and the catalog entry the original
C23_Witness ==
    /\ pc = "classified"
    /\ settings.masterVolume = 50
    /\ Len(sounds) >= 2
    /\ sounds[1].id = "checkmate"
    /\ sounds[1].volume = 2500
    /\ catalog.special_moves[2].volume = 50
--------------------------------------------------------------------------
(* Shape of a returned schedule                                            *)

\* the place of a category in the order analyzeMoveForSounds pushes
StageOf(category) ==
    IF category = "special_moves" THEN 1
    ELSE IF category = "piece_capture" THEN 2
    ELSE IF category = "crowd_reaction" THEN 3
    ELSE 0

\* C24: the start frames of a returned schedule are strictly increasing and
\* the sort has left the triggers in the order they were produced; a move
\* yields at most three sounds, of different categories, special move before
\* capture before crowd, and its cues start 0, 5 and 10 frames after the base
\* frame of the move, before the base frame of the next move.
C24_StrictlyIncreasingFrames ==
    /\ pc \in {"returned", "done"} =>
         /\ schedule = triggers
         /\ \A k \in 1..(Len(schedule) - 1) :
              schedule[k].startFrame < schedule[k + 1].startFrame
         /\ \A k \in 1..Len(schedule) :
              LET offset == schedule[k].startFrame - (90 + 30 * MoveOf(schedule[k]))
              IN  /\ MoveOf(schedule[k]) \in 0..(Len(moves) - 1)
                  /\ offset \in {0, 5, 10}
                  /\ offset = 5 * Cardinality({l \in 1..(k - 1) :
                                    MoveOf(schedule[l]) = MoveOf(schedule[k])})
    /\ Len(sounds) <= 3
    /\ \A i \in 1..Len(sounds) : StageOf(sounds[i].category) \in 1..3
    /\ \A i, j \in 1..Len(sounds) :
         i < j => StageOf(sounds[i].category) < StageOf(sounds[j].category)

\* a returned schedule of two moves with three cues each but the first
C24_Witness ==
    /\ pc = "returned"
    /\ Len(moves) = 2
    /\ Len(schedule) = 5
    /\ Len(sounds) = 3
--------------------------------------------------------------------------
(* Algebra of the overlap filter                                           *)

\* sub[i..] can be found, in order, among list[j..]
RECURSIVE EmbedsFrom(_, _, _, _)
EmbedsFrom(sub, list, i, j) ==
    IF i > Len(sub) THEN TRUE
    ELSE IF j > Len(list) THEN FALSE
    ELSE IF sub[i] = list[j] THEN EmbedsFrom(sub, list, i + 1, j + 1)
    ELSE EmbedsFrom(sub, list, i, j + 1)

IsSubsequence(sub, list) == EmbedsFrom(sub, list, 1, 1)

\* C25: what filterOverlappingSounds returns is a subsequence of its input,
\* filtering it again with the same window returns it unchanged, it starts
\* with the first trigger of the input, and with a window of 0 or less it is
\* the input itself.
C25_FilterIdempotent ==
    pc = "filtered" =>
        /\ IsSubsequence(filtered, input)
        /\ filterOverlappingSounds(filtered, maxFrameDistance) = filtered
        /\ input # <<>> => (filtered # <<>> /\ filtered[1] = input[1])
        /\ maxFrameDistance <= 0 => filtered = input
        /\ filterOverlappingSounds(input, -15) = input

\* a call discarded its second trigger and kept the first and the third
C25_Witness ==
    /\ pc = "filtered"
    /\ Len(input) = 3
    /\ maxFrameDistance = 15
    /\ filtered = <<input[1], input[3]>>
    /\ input[2] # input[1] /\ input[2] # input[3]
\* the forEach of the call that returned kept the j-th trigger of the input
KeptAt(j) ==
    Len(filterPrefix(input, j, maxFrameDistance))
        = Len(filterPrefix(input, j - 1, maxFrameDistance)) + 1

\* C26: for every trigger the filter discarded, the returned list holds a
\* trigger that comes earlier in the input, starts less than the window away
\* and has at least its priority; and a trigger whose priority exceeds that
\* of every trigger before it in the input is kept.
C26_DiscardHasWitness ==
    pc = "filtered" =>
        /\ Len(filtered) = Cardinality({j \in 1..Len(input) : KeptAt(j)})
        /\ \A j \in 1..Len(input) :
             ~KeptAt(j) =>
                \E i \in 1..(j - 1) :
                    /\ KeptAt(i)
                    /\ \E m \in 1..Len(filtered) : filtered[m] = input[i]
                    /\ Abs(input[i].startFrame - input[j].startFrame)
                          < maxFrameDistance
                    /\ input[i].priority >= input[j].priority
        /\ \A j \in 1..Len(input) :
             (\A i \in 1..(j - 1) : input[i].priority < input[j].priority)
                => KeptAt(j)

\* the second trigger was discarded for the first, and the third, of higher
\* priority than both and within the window, was kept
C26_Witness ==
    /\ pc = "filtered"
    /\ Len(input) = 3
    /\ ~KeptAt(2)
    /\ KeptAt(3)
    /\ input[3].priority > input[1].priority
    /\ input[3].priority > input[2].priority
    /\ Abs(input[3].startFrame - input[1].startFrame) < maxFrameDistance
    /\ Len(filtered) = 2
====
